---- MODULE Spec2Model ----
(***************************************************************************)
(* State-machine model of src/ingestion/fmn_scraper.py (FMNScraper and     *)
(* main): the incremental crawl of the paginated competition calendar, the *)
(* per-competition disposition, the archive transfer and the JSON registry *)
(* that makes re-runs incremental.                                         *)
(*                                                                         *)
(* The remote site is a fixed table chosen in Init (it never changes in a  *)
(* behaviour); every outbound request may fail at the network level, every *)
(* write to storage may fail, and the process may be interrupted or killed *)
(* between two steps and restarted on the same output directory.           *)
(***************************************************************************)
EXTENDS Integers, Sequences, FiniteSets, TLC

\* ---------------------------------------------------------------- bounds
MaxRuns == 2          \* process starts on the same output directory
MaxFaults == 1        \* network and storage failures in one behaviour
MaxAnchors == 3       \* anchors on the page given to page extraction

\* ------------------------------------------------------ program constants
StartYear == 2018         \* start_year
CurrentYear == 2026       \* datetime.now().year
EndYear == CurrentYear    \* end_year or datetime.now().year
MinTitleLen == 5          \* len(title) < 5
FallbackPages == 100      \* _detect_total_pages without a response
EmptyLimit == 3           \* consecutive_empty >= 3
CfgPages == 2             \* an explicit max_pages given to the constructor

NoId == 0                 \* an href that is no competition link
NoPages == -1             \* max_pages = None
NoTok == -1               \* the title has no such token
NoUrl == "none"           \* _find_res_zip_link found no archive
NoDate == <<>>            \* _extract_date_from_page returned None

Ids == 1..6
Urls == {"u1", "u2", "u3", "u4"}

\* ------------------------------------------------------- the remote site
\* A title as the page shows it: its text (after the NATACION prefix is
\* stripped), its length, the first two digits of a season token NN-MM and
\* an explicit year token 20NN.
Title(name, len, season, year4) ==
  [name |-> name, len |-> len, season |-> season, year4 |-> year4]

Anchor(id, title) == [id |-> id, title |-> title]

aTrofeo  == Anchor(1, Title("Trofeo A", 8, 25, NoTok))
aImage1  == Anchor(1, Title("", 0, NoTok, NoTok))
aCopa    == Anchor(2, Title("Copa B", 6, NoTok, 2024))
aLiga    == Anchor(3, Title("Liga C", 6, NoTok, NoTok))
aTrofeo2 == Anchor(4, Title("Trofeo_A", 8, 25, NoTok))
aOpen    == Anchor(5, Title("Open E", 6, 22, NoTok))
aMaster  == Anchor(6, Title("Master F", 8, 15, NoTok))
aViejo   == Anchor(6, Title("Viejo 2015", 10, NoTok, 2015))
aMenu    == Anchor(NoId, Title("Inicio", 6, NoTok, NoTok))

\* What the detail page of a competition holds: the archive link that
\* _find_res_zip_link returns and the date _extract_date_from_page returns.
Detail(id) ==
  CASE id = 1 -> [zip |-> "u1", date |-> <<2026, 1, 31>>]
    [] id = 2 -> [zip |-> "u2", date |-> NoDate]
    [] id = 3 -> [zip |-> NoUrl, date |-> <<2026, 2, 14>>]
    [] id = 4 -> [zip |-> "u3", date |-> <<2026, 1, 31>>]
    [] id = 5 -> [zip |-> "u4", date |-> NoDate]
    [] OTHER  -> [zip |-> "u1", date |-> NoDate]

\* The Content-Type the server declares for an archive URL.
ContentType(url) == IF url = "u2" THEN "text/html" ELSE "application/zip"

\* Calendars: the anchors of each page in document order, and the numeric
\* labels of the pagination anchors of the first page.  A page past the
\* last one listed is served without any anchor.
SiteA == [pages |-> << <<aMenu, aTrofeo, aImage1, aCopa>>,
                       <<aTrofeo, aLiga, aViejo>>,
                       <<aTrofeo2, aOpen, aMaster>> >>,
          labels |-> {2, 3}]
SiteB == [pages |-> << <<aTrofeo>>, <<>>, <<>>, <<>>, <<aOpen>> >>,
          labels |-> {2, 5}]
SiteC == [pages |-> << <<aMenu>>, <<>>, <<aViejo>>, <<aCopa>> >>,
          labels |-> {4}]
SiteD == [pages |-> << <<aCopa, aLiga>> >>, labels |-> {}]
SiteE == [pages |-> << <<>>, <<>>, <<aLiga>>, <<aMenu>> >>, labels |-> {4}]
SiteF == [pages |-> << <<aTrofeo>>, <<aMaster>> >>, labels |-> {2}]

\* The set-ups: a calendar and the max_pages given to the constructor.
Setups ==
  { <<SiteA, NoPages>>, <<SiteA, CfgPages>>, <<SiteB, NoPages>>,
    <<SiteE, NoPages>>, <<SiteF, NoPages>>,
    <<SiteC, NoPages>>, <<SiteD, NoPages>> }

PageAnchors(s, p) == IF p \in 1..Len(s.pages) THEN s.pages[p] ELSE <<>>

\* ---------------------------------------------------------- pure functions
SetMax(S) == CHOOSE m \in S : \A x \in S : x <= m

ExtractYearFromText(t) ==
  IF t.season # NoTok /\ StartYear <= 2000 + t.season /\ 2000 + t.season <= EndYear
  THEN 2000 + t.season
  ELSE IF t.year4 # NoTok THEN t.year4
  ELSE CurrentYear

SanitizeFilename(name) ==
  CASE name = "Trofeo A" -> "Trofeo_A"
    [] name = "Copa B"   -> "Copa_B"
    [] name = "Liga C"   -> "Liga_C"
    [] name = "Open E"   -> "Open_E"
    [] name = "Master F" -> "Master_F"
    [] name = "Viejo 2015" -> "Viejo_2015"
    [] OTHER -> name

\* The loop without the test of line 254: an id may be listed twice.
RECURSIVE ScanAnchorsNoDedup(_, _, _, _)
ScanAnchorsNoDedup(anchors, i, proc, acc) ==
  IF i > Len(anchors) THEN acc
  ELSE LET a == anchors[i]
           sy == ExtractYearFromText(a.title)
       IN  IF a.id = NoId
           THEN ScanAnchorsNoDedup(anchors, i + 1, proc, acc)
           ELSE IF a.id \in proc
           THEN ScanAnchorsNoDedup(anchors, i + 1, proc,
                                   [acc EXCEPT !.skipped = @ + 1])
           ELSE IF a.title.len < MinTitleLen
           THEN ScanAnchorsNoDedup(anchors, i + 1, proc, acc)
           ELSE IF ~(StartYear <= sy /\ sy <= EndYear)
           THEN ScanAnchorsNoDedup(anchors, i + 1, proc, acc)
           ELSE ScanAnchorsNoDedup(anchors, i + 1, proc,
                  [acc EXCEPT !.comps =
                     Append(@, [id |-> a.id, title |-> a.title.name,
                                season_year |-> sy])])

\* _get_competitions_from_page, the loop over the anchors of a fetched page:
\* acc.comps is the list built so far, acc.skipped the number of times
\* stats['competitions_already_downloaded'] was incremented.
RECURSIVE ScanAnchors(_, _, _, _)
ScanAnchors(anchors, i, proc, acc) ==
  IF i > Len(anchors) THEN acc
  ELSE LET a == anchors[i]
           sy == ExtractYearFromText(a.title)
       IN  IF a.id = NoId
           THEN ScanAnchors(anchors, i + 1, proc, acc)
           ELSE IF a.id \in proc
           THEN ScanAnchors(anchors, i + 1, proc,
                            [acc EXCEPT !.skipped = @ + 1])
           ELSE IF a.title.len < MinTitleLen
           THEN ScanAnchors(anchors, i + 1, proc, acc)
           ELSE IF ~(StartYear <= sy /\ sy <= EndYear)
           THEN ScanAnchors(anchors, i + 1, proc, acc)
           ELSE IF \E k \in 1..Len(acc.comps) : acc.comps[k].id = a.id
           THEN ScanAnchors(anchors, i + 1, proc, acc)
           ELSE ScanAnchors(anchors, i + 1, proc,
                  [acc EXCEPT !.comps =
                     Append(@, [id |-> a.id, title |-> a.title.name,
                                season_year |-> sy])])

\* An extraction that marks what it lists, where line 253 says not yet.
GetCompetitionsMarksListed(anchors, proc, netOk) ==
  IF ~netOk THEN [comps |-> <<>>, skipped |-> 0, processed |-> proc]
  ELSE LET r == ScanAnchors(anchors, 1, proc, [comps |-> <<>>, skipped |-> 0])
       IN  [comps |-> r.comps, skipped |-> r.skipped,
            processed |-> proc \cup {r.comps[k].id : k \in 1..Len(r.comps)}]

\* The same loop without the registry check of lines 230-233.
GetCompetitionsNoRegistryCheck(anchors, proc, netOk) ==
  IF ~netOk THEN [comps |-> <<>>, skipped |-> 0, processed |-> proc]
  ELSE LET r == ScanAnchors(anchors, 1, {}, [comps |-> <<>>, skipped |-> 0])
       IN  [comps |-> r.comps, skipped |-> r.skipped, processed |-> proc]

\* _get_competitions_from_page: no response gives the empty list.  comps is
\* the list returned, skipped what was added to the statistic, processed
\* what self.processed_competitions is when the method returns: the method
\* reads the set and never writes it.
GetCompetitionsFromPage(anchors, proc, netOk) ==
  IF ~netOk THEN [comps |-> <<>>, skipped |-> 0, processed |-> proc]
  ELSE LET r == ScanAnchors(anchors, 1, proc, [comps |-> <<>>, skipped |-> 0])
       IN  [comps |-> r.comps, skipped |-> r.skipped, processed |-> proc]

\* _detect_total_pages: the largest numeric pagination label, at least 1.
DetectTotalPages(labels, netOk) ==
  IF ~netOk THEN FallbackPages ELSE SetMax(labels \cup {1})

\* ------------------------------------------------------------ the registry
\* The registry file: missing, well formed ("ok"), not parseable
\* ("malformed"), not readable ("unreadable"), or valid JSON that is no
\* object ("wrongshape").
MissingFile == [kind |-> "missing", ids |-> {}, urls |-> {}]
MalformedFile == [kind |-> "malformed", ids |-> {}, urls |-> {}]
UnreadableFile == [kind |-> "unreadable", ids |-> {}, urls |-> {}]
WrongShapeFile == [kind |-> "wrongshape", ids |-> {}, urls |-> {}]
OkFile(ids, urls) == [kind |-> "ok", ids |-> ids, urls |-> urls]

\* A load that forgets what the file holds.
LoadRegistryForgetful(f) == [raised |-> FALSE, ids |-> {}, urls |-> {}]

\* _load_registry: JSONDecodeError and IOError are caught; data.get on a
\* value that is no dict raises AttributeError, which is not.
LoadRegistry(f) ==
  CASE f.kind = "ok" -> [raised |-> FALSE, ids |-> f.ids, urls |-> f.urls]
    [] f.kind = "wrongshape" -> [raised |-> TRUE, ids |-> {}, urls |-> {}]
    [] OTHER -> [raised |-> FALSE, ids |-> {}, urls |-> {}]

SaveOutcomes == {"ok", "fail_before", "fail_partial"}

\* _save_registry: open(..., 'w') truncates the file and json.dump streams
\* into it.  An IOError before the file is opened leaves it as it was, one
\* while writing leaves a truncated file; both are caught and logged.
SaveRegistry(f, ids, urls, io) ==
  CASE io = "ok" -> OkFile(ids, urls)
    [] io = "fail_before" -> f
    [] OTHER -> MalformedFile

\* ------------------------------------------------------------ the transfer
\* The year directory taken from the season year of the title alone.
CompetitionYearSeasonOnly(comp, date) == comp.season_year

\* Lines 359-371: the year of the extracted date when there is one, the
\* season year otherwise; the file name starts with the date or that year.
CompetitionYear(comp, date) ==
  IF date # NoDate THEN date[1] ELSE comp.season_year

SavePath(comp, date) ==
  [dir |-> CompetitionYear(comp, date),
   file |-> <<IF date # NoDate THEN date ELSE <<comp.season_year>>,
              SanitizeFilename(comp.title)>>]

WriteOutcomes == {"ok", "fail_nofile", "fail_partial"}

DlResult(ok, kind, dl, fs, requested) ==
  [ok |-> ok, kind |-> kind, downloaded |-> dl, files |-> fs,
   requested |-> requested]

\* A transfer that records the URL although the response was rejected.
DownloadFileRecordsRejected(url, path, dl, fs, netOk, io) ==
  IF url \in dl THEN DlResult(FALSE, "known", dl, fs, FALSE)
  ELSE IF path \in fs THEN DlResult(FALSE, "exists", dl \cup {url}, fs, FALSE)
  ELSE IF ~netOk THEN DlResult(FALSE, "net_fail", dl, fs, TRUE)
  ELSE IF ContentType(url) = "text/html"
  THEN DlResult(FALSE, "html", dl \cup {url}, fs, TRUE)
  ELSE IF io = "fail_nofile" THEN DlResult(FALSE, "io_fail", dl, fs, TRUE)
  ELSE IF io = "fail_partial"
  THEN DlResult(FALSE, "io_fail", dl, fs \cup {path}, TRUE)
  ELSE DlResult(TRUE, "stored", dl \cup {url}, fs \cup {path}, TRUE)

\* A transfer that writes the body before it looks at the content type.
DownloadFileWritesFirst(url, path, dl, fs, netOk, io) ==
  IF url \in dl THEN DlResult(FALSE, "known", dl, fs, FALSE)
  ELSE IF path \in fs THEN DlResult(FALSE, "exists", dl \cup {url}, fs, FALSE)
  ELSE IF ~netOk THEN DlResult(FALSE, "net_fail", dl, fs, TRUE)
  ELSE IF io = "fail_nofile" THEN DlResult(FALSE, "io_fail", dl, fs, TRUE)
  ELSE IF io = "fail_partial"
  THEN DlResult(FALSE, "io_fail", dl, fs \cup {path}, TRUE)
  ELSE IF ContentType(url) = "text/html"
  THEN DlResult(FALSE, "html", dl, fs \cup {path}, TRUE)
  ELSE DlResult(TRUE, "stored", dl \cup {url}, fs \cup {path}, TRUE)

\* A transfer without the check of downloaded_files (lines 301-304).
DownloadFileNoUrlCheck(url, path, dl, fs, netOk, io) ==
  IF path \in fs THEN DlResult(FALSE, "exists", dl \cup {url}, fs, FALSE)
  ELSE IF ~netOk THEN DlResult(FALSE, "net_fail", dl, fs, TRUE)
  ELSE IF ContentType(url) = "text/html"
  THEN DlResult(FALSE, "html", dl, fs, TRUE)
  ELSE IF io = "fail_nofile" THEN DlResult(FALSE, "io_fail", dl, fs, TRUE)
  ELSE IF io = "fail_partial"
  THEN DlResult(FALSE, "io_fail", dl, fs \cup {path}, TRUE)
  ELSE DlResult(TRUE, "stored", dl \cup {url}, fs \cup {path}, TRUE)

\* A transfer whose file-exists branch returns without recording the URL.
DownloadFileExistsUnrecorded(url, path, dl, fs, netOk, io) ==
  IF url \in dl THEN DlResult(FALSE, "known", dl, fs, FALSE)
  ELSE IF path \in fs THEN DlResult(FALSE, "exists", dl, fs, FALSE)
  ELSE IF ~netOk THEN DlResult(FALSE, "net_fail", dl, fs, TRUE)
  ELSE IF ContentType(url) = "text/html"
  THEN DlResult(FALSE, "html", dl, fs, TRUE)
  ELSE IF io = "fail_nofile" THEN DlResult(FALSE, "io_fail", dl, fs, TRUE)
  ELSE IF io = "fail_partial"
  THEN DlResult(FALSE, "io_fail", dl, fs \cup {path}, TRUE)
  ELSE DlResult(TRUE, "stored", dl \cup {url}, fs \cup {path}, TRUE)

\* _download_file.  kind names the branch taken: "known" (lines 301-304),
\* "exists" (306-310), "net_fail" (314-315), "html" (319-321), "io_fail"
\* (338-341: the directory or the file could not be created, or the write
\* or the streamed body broke off and left a partial file) and "stored"
\* (323-336).  requested tells whether the GET of line 313 was sent.
DownloadFile(url, path, dl, fs, netOk, io) ==
  IF url \in dl THEN DlResult(FALSE, "known", dl, fs, FALSE)
  ELSE IF path \in fs THEN DlResult(FALSE, "exists", dl \cup {url}, fs, FALSE)
  ELSE IF ~netOk THEN DlResult(FALSE, "net_fail", dl, fs, TRUE)
  ELSE IF ContentType(url) = "text/html"
  THEN DlResult(FALSE, "html", dl, fs, TRUE)
  ELSE IF io = "fail_nofile" THEN DlResult(FALSE, "io_fail", dl, fs, TRUE)
  ELSE IF io = "fail_partial"
  THEN DlResult(FALSE, "io_fail", dl, fs \cup {path}, TRUE)
  ELSE DlResult(TRUE, "stored", dl \cup {url}, fs \cup {path}, TRUE)

NoDownload == [ok |-> FALSE, kind |-> "none", url |-> NoUrl, requested |-> FALSE]

\* A disposition that marks the id only when an archive was found and
\* stored or skipped, as the comments of lines 375 and 378 read.
DisposeMarksNoFailure(comp, proc, dl, fs, netDetail, netZip, io) ==
  LET d == Detail(comp.id)
      found == netDetail /\ d.zip # NoUrl
      r == DownloadFile(d.zip, SavePath(comp, d.date), dl, fs, netZip, io)
  IN  IF ~found
      THEN [processed |-> proc \cup {comp.id}, downloaded |-> dl,
            files |-> fs, found |-> FALSE, dl |-> NoDownload,
            path |-> SavePath(comp, d.date)]
      ELSE [processed |-> IF r.ok \/ ~r.requested
                          THEN proc \cup {comp.id} ELSE proc,
            downloaded |-> r.downloaded,
            files |-> r.files, found |-> TRUE,
            dl |-> [ok |-> r.ok, kind |-> r.kind, url |-> d.zip,
                    requested |-> r.requested],
            path |-> SavePath(comp, d.date)]

\* _process_competition: the detail page is requested, and when it names an
\* archive the transfer is tried; the id is marked in every case.
Dispose(comp, proc, dl, fs, netDetail, netZip, io) ==
  LET d == Detail(comp.id)
      found == netDetail /\ d.zip # NoUrl
      r == DownloadFile(d.zip, SavePath(comp, d.date), dl, fs, netZip, io)
  IN  IF ~found
      THEN [processed |-> proc \cup {comp.id}, downloaded |-> dl,
            files |-> fs, found |-> FALSE, dl |-> NoDownload,
            path |-> SavePath(comp, d.date)]
      ELSE [processed |-> proc \cup {comp.id}, downloaded |-> r.downloaded,
            files |-> r.files, found |-> TRUE,
            dl |-> [ok |-> r.ok, kind |-> r.kind, url |-> d.zip,
                    requested |-> r.requested],
            path |-> SavePath(comp, d.date)]

\* ------------------------------------------------------------------ state
VARIABLES
  site,               \* the remote calendar, fixed
  cfgMaxPages,        \* the max_pages argument of the constructor
  regFile,            \* .downloaded_competitions.json
  files,              \* the archive paths that exist on disk
  pc,                 \* where the process is
  processed,          \* self.processed_competitions
  downloaded,         \* self.downloaded_files
  max_pages,          \* self.max_pages
  page,               \* run: page
  consecutive_empty,  \* run: consecutive_empty
  competitions,       \* run: the competitions of the page still to process
  stats,              \* self.stats
  exitCode,           \* what main returns (-1: none yet, 137: killed)
  run,                \* the number of this process start
  outcome,            \* how this run ended, "running" before that
  prevCompleted,      \* the previous run returned and flushed its registry
  netFails,           \* network failures so far
  netFailedRun,       \* a request of this run failed
  ioFails,            \* storage failures so far
  xfers,              \* per URL, the transfers that stored the archive
  xferOpsRun,         \* archive GET requests sent in this run
  existSkipped,       \* URLs recorded because the target file existed
  lastDetail,         \* the id whose detail page the last step requested
  detailRun,          \* the ids whose detail page this run requested
  justified,          \* URLs loaded, stored or found present in this run
  lastDl,             \* the _download_file call of the last step
  saves,              \* calls of _save_registry in this run
  nonEmptyPages,      \* pages of this run that yielded a competition
  emptyStreak,        \* latest consecutive pages with nothing on them
  lastFlushed,        \* what the last completed flush wrote
  justFlushed,        \* the last step was the flush that follows a page
  resume,             \* the crash this run was restarted after
  loadedIds,          \* the ids _load_registry gave this run
  failedIds,          \* the ids whose archive transfer failed, in any run
  lastFailed          \* the request of the last step that failed

vars == <<site, cfgMaxPages, regFile, files, pc, processed, downloaded,
          max_pages, page, consecutive_empty, competitions, stats, exitCode,
          run, outcome, prevCompleted, netFails, netFailedRun, ioFails, xfers,
          xferOpsRun, existSkipped, lastDetail, detailRun,
          justified, lastDl, saves, nonEmptyPages, emptyStreak, lastFlushed,
          justFlushed, resume, loadedIds, failedIds, lastFailed>>

envVars == <<site, cfgMaxPages>>

ZeroStats ==
  [pages_scraped |-> 0, competitions_found |-> 0,
   competitions_already_downloaded |-> 0, competitions_with_res |-> 0,
   files_downloaded |-> 0, files_skipped |-> 0, errors |-> 0]

NoLastDl ==
  [url |-> NoUrl, path |-> [dir |-> 0, file |-> <<>>], responded |-> FALSE,
   ok |-> FALSE, kind |-> "none", requested |-> FALSE, known |-> FALSE,
   present |-> FALSE, season |-> 0, date |-> NoDate]

NoResume == [active |-> FALSE, ids |-> {}, urls |-> {}, n |-> 0]

Running == {"ready", "loop", "proc", "final"}

Faults == netFails + ioFails
NetChoices == IF Faults < MaxFaults THEN {TRUE, FALSE} ELSE {TRUE}
SaveChoices == IF Faults < MaxFaults THEN SaveOutcomes ELSE {"ok"}
WriteChoices == IF Faults < MaxFaults THEN WriteOutcomes ELSE {"ok"}

Bit(b) == IF b THEN 1 ELSE 0

\* The output directory is new, or holds a registry file that some earlier
\* tool or accident left behind.
Init ==
  /\ \E su \in Setups : site = su[1] /\ cfgMaxPages = su[2]
  /\ regFile \in {MissingFile, WrongShapeFile}
  /\ files = {}
  /\ pc = "new"
  /\ processed = {}
  /\ downloaded = {}
  /\ max_pages = NoPages
  /\ page = 0
  /\ consecutive_empty = 0
  /\ competitions = <<>>
  /\ stats = ZeroStats
  /\ exitCode = -1
  /\ run = 1
  /\ outcome = "running"
  /\ prevCompleted = FALSE
  /\ netFails = 0
  /\ netFailedRun = FALSE
  /\ ioFails = 0
  /\ xfers = [u \in Urls |-> 0]
  /\ xferOpsRun = 0
  /\ existSkipped = {}
  /\ lastDetail = NoId
  /\ detailRun = {}
  /\ justified = {}
  /\ lastDl = NoLastDl
  /\ saves = 0
  /\ nonEmptyPages = 0
  /\ emptyStreak = 0
  /\ lastFlushed = [ids |-> {}, urls |-> {}]
  /\ justFlushed = FALSE
  /\ resume = NoResume
  /\ loadedIds = {}
  /\ failedIds = {}
  /\ lastFailed = "none"

\* FMNScraper.__init__: the sets start empty, the registry is loaded, the
\* statistics start at zero.  An exception of _load_registry leaves main
\* before its try block.
Construct ==
  /\ pc = "new"
  /\ LET r == LoadRegistry(regFile)
     IN  /\ processed' = r.ids
         /\ downloaded' = r.urls
         /\ justified' = r.urls
         /\ loadedIds' = r.ids
         /\ pc' = IF r.raised THEN "exited" ELSE "ready"
         /\ exitCode' = IF r.raised THEN 1 ELSE -1
         /\ outcome' = IF r.raised THEN "raised" ELSE "running"
  /\ max_pages' = cfgMaxPages
  /\ stats' = ZeroStats
  /\ lastDetail' = NoId
  /\ lastDl' = NoLastDl
  /\ justFlushed' = FALSE
  /\ lastFailed' = "none"
  /\ UNCHANGED <<envVars, regFile, files, page, consecutive_empty,
                 competitions, run, prevCompleted, netFails, netFailedRun, ioFails,
                 xfers, xferOpsRun, existSkipped, detailRun,
                 saves, nonEmptyPages, emptyStreak, lastFlushed, resume,
                 failedIds>>

\* run, lines 404-426: the page count is detected unless it was given.
RunStart ==
  /\ pc = "ready"
  /\ \E netOk \in NetChoices :
       LET detect == max_pages = NoPages
           failed == detect /\ ~netOk
       IN  /\ max_pages' = IF detect
                           THEN DetectTotalPages(site.labels, netOk)
                           ELSE max_pages
           /\ stats' = [stats EXCEPT !.errors = @ + Bit(failed)]
           /\ netFails' = netFails + Bit(failed)
           /\ netFailedRun' = (netFailedRun \/ failed)
           /\ lastFailed' = IF failed THEN "pages" ELSE "none"
  /\ page' = 1
  /\ consecutive_empty' = 0
  /\ pc' = "loop"
  /\ lastDetail' = NoId
  /\ lastDl' = NoLastDl
  /\ justFlushed' = FALSE
  /\ UNCHANGED <<envVars, regFile, files, processed, downloaded,
                 competitions, exitCode, run, outcome, prevCompleted, ioFails, xfers,
                 xferOpsRun, existSkipped, detailRun, justified,
                 saves, nonEmptyPages, emptyStreak, lastFlushed, resume,
                 loadedIds, failedIds>>

\* A loop test that lets one page too many through.
LoopHeadOffByOne(p, maxp) == IF p <= maxp + 1 THEN "loop" ELSE "final"

\* The test of the while loop after page has been set to p.
LoopHead(p, maxp) == IF p <= maxp THEN "loop" ELSE "final"

\* A loop that counts every page without new competitions, skipped
\* entries or not.
EmptyPageBranchCountsSkipped(counter, alreadyDownloaded) ==
  [counter |-> counter + 1, stop |-> counter + 1 >= EmptyLimit]

\* A loop that gives up at the first page without new competitions.
EmptyPageBranchStopsAtFirst(counter, alreadyDownloaded) ==
  IF alreadyDownloaded > 0
  THEN [counter |-> 0, stop |-> FALSE]
  ELSE [counter |-> counter + 1, stop |-> TRUE]

\* run, lines 434-445, for a page without new competitions: the test reads
\* stats['competitions_already_downloaded'], the count of the whole run.
EmptyPageBranch(counter, alreadyDownloaded) ==
  IF alreadyDownloaded > 0
  THEN [counter |-> 0, stop |-> FALSE]
  ELSE [counter |-> counter + 1, stop |-> counter + 1 >= EmptyLimit]

\* run, lines 428-449: one page of the calendar is fetched and scanned.  A
\* page without new competitions is handled at once; the competitions of
\* any other page are queued for _process_competition.
VisitPage ==
  /\ pc = "loop"
  /\ \E netOk \in NetChoices :
       LET got == GetCompetitionsFromPage(PageAnchors(site, page),
                                          processed, netOk)
           st == [stats EXCEPT
                    !.pages_scraped = @ + 1,
                    !.errors = @ + Bit(~netOk),
                    !.competitions_already_downloaded = @ + got.skipped]
           br == EmptyPageBranch(consecutive_empty,
                                 st.competitions_already_downloaded)
       IN  /\ netFails' = netFails + Bit(~netOk)
           /\ processed' = got.processed
           /\ netFailedRun' = (netFailedRun \/ ~netOk)
           /\ lastFailed' = IF netOk THEN "none" ELSE "page"
           /\ emptyStreak' = IF got.comps = <<>> /\ got.skipped = 0
                             THEN emptyStreak + 1 ELSE 0
           /\ IF got.comps = <<>>
              THEN /\ stats' = st
                   /\ consecutive_empty' = br.counter
                   /\ competitions' = <<>>
                   /\ page' = IF br.stop THEN page ELSE page + 1
                   /\ pc' = IF br.stop THEN "final"
                            ELSE LoopHead(page + 1, max_pages)
                   /\ UNCHANGED nonEmptyPages
              ELSE /\ stats' = [st EXCEPT
                                  !.competitions_found = @ + Len(got.comps)]
                   /\ consecutive_empty' = 0
                   /\ competitions' = got.comps
                   /\ pc' = "proc"
                   /\ nonEmptyPages' = nonEmptyPages + 1
                   /\ UNCHANGED page
  /\ lastDetail' = NoId
  /\ lastDl' = NoLastDl
  /\ justFlushed' = FALSE
  /\ UNCHANGED <<envVars, regFile, files, downloaded, max_pages,
                 exitCode, run, outcome, prevCompleted, ioFails, xfers, xferOpsRun,
                 existSkipped, detailRun, justified, saves,
                 lastFlushed, resume, loadedIds, failedIds>>

\* run, lines 452-453, one turn of the for loop: _process_competition on
\* the next competition of the page.
ProcessCompetition ==
  /\ pc = "proc"
  /\ competitions # <<>>
  /\ \E netDetail \in NetChoices, netZip \in NetChoices, io \in WriteChoices :
       LET comp == Head(competitions)
           d == Detail(comp.id)
           r == Dispose(comp, processed, downloaded, files,
                        netDetail, netZip, io)
           zipFailed == r.found /\ r.dl.requested /\ ~netZip
           ioFailed == r.found /\ r.dl.kind = "io_fail"
           nFail == Bit(~netDetail) + Bit(zipFailed)
           present == r.found /\ d.zip \notin downloaded /\ r.path \in files
           skipped == r.found /\ ~r.dl.requested
       IN  /\ Faults + nFail + Bit(ioFailed) <= MaxFaults
           /\ processed' = r.processed
           /\ downloaded' = r.downloaded
           /\ files' = r.files
           /\ stats' = [stats EXCEPT
                          !.competitions_with_res = @ + Bit(r.found),
                          !.files_downloaded = @ + Bit(r.dl.ok),
                          !.files_skipped = @ + Bit(skipped),
                          !.errors = @ + nFail + Bit(ioFailed)]
           /\ netFails' = netFails + nFail
           /\ netFailedRun' = (netFailedRun \/ nFail > 0)
           /\ ioFails' = ioFails + Bit(ioFailed)
           /\ xfers' = IF r.dl.ok THEN [xfers EXCEPT ![d.zip] = @ + 1]
                       ELSE xfers
           /\ xferOpsRun' = xferOpsRun + Bit(r.found /\ r.dl.requested)
           /\ existSkipped' = IF present THEN existSkipped \cup {d.zip}
                              ELSE existSkipped
           /\ justified' = IF r.dl.ok \/ present THEN justified \cup {d.zip}
                           ELSE justified
           /\ lastDetail' = comp.id
           /\ detailRun' = detailRun \cup {comp.id}
           /\ lastDl' = IF r.found
                        THEN [url |-> d.zip, path |-> r.path,
                              responded |-> r.dl.requested /\ netZip,
                              ok |-> r.dl.ok, kind |-> r.dl.kind,
                              requested |-> r.dl.requested,
                              known |-> d.zip \in downloaded,
                              present |-> r.path \in files,
                              season |-> comp.season_year, date |-> d.date]
                        ELSE NoLastDl
           /\ failedIds' = IF r.found /\ r.dl.requested /\ ~r.dl.ok
                           THEN failedIds \cup {comp.id} ELSE failedIds
           /\ lastFailed' = IF ~netDetail THEN "detail"
                            ELSE IF zipFailed THEN "zip" ELSE "none"
  /\ competitions' = Tail(competitions)
  /\ justFlushed' = FALSE
  /\ UNCHANGED <<envVars, regFile, pc, max_pages, page, consecutive_empty,
                 exitCode, run, outcome, prevCompleted, saves, nonEmptyPages,
                 emptyStreak, lastFlushed, resume, loadedIds>>

\* The page flush left out.
SavePageNoWrite ==
  /\ pc = "proc"
  /\ competitions = <<>>
  /\ page' = page + 1
  /\ pc' = LoopHead(page + 1, max_pages)
  /\ lastDetail' = NoId
  /\ lastDl' = NoLastDl
  /\ justFlushed' = FALSE
  /\ lastFailed' = "none"
  /\ UNCHANGED <<envVars, regFile, files, processed, downloaded, max_pages,
                 consecutive_empty, competitions, stats, exitCode, run,
                 outcome, prevCompleted, netFails, netFailedRun, ioFails, xfers,
                 xferOpsRun, existSkipped, detailRun, justified,
                 saves, nonEmptyPages, emptyStreak, lastFlushed, resume,
                 loadedIds, failedIds>>

\* run, lines 455-458: after the last competition of the page the registry
\* is saved and the page index advances.
SavePage ==
  /\ pc = "proc"
  /\ competitions = <<>>
  /\ \E io \in SaveChoices :
       /\ regFile' = SaveRegistry(regFile, processed, downloaded, io)
       /\ ioFails' = ioFails + Bit(io # "ok")
       /\ lastFlushed' = IF io = "ok"
                         THEN [ids |-> processed, urls |-> downloaded]
                         ELSE lastFlushed
       /\ justFlushed' = (io = "ok")
  /\ saves' = saves + 1
  /\ page' = page + 1
  /\ pc' = LoopHead(page + 1, max_pages)
  /\ lastDetail' = NoId
  /\ lastDl' = NoLastDl
  /\ lastFailed' = "none"
  /\ UNCHANGED <<envVars, files, processed, downloaded, max_pages,
                 consecutive_empty, competitions, stats, exitCode, run,
                 outcome, prevCompleted, netFails, netFailedRun, xfers, xferOpsRun,
                 existSkipped, detailRun, justified,
                 nonEmptyPages, emptyStreak, resume, loadedIds, failedIds>>

\* An exit code that does not look at the error count.
ExitCodeAlwaysZero(st) == 0

\* main, line 502.
ExitCode(st) == IF st.errors = 0 THEN 0 ELSE 1

\* run, lines 460-477, and main, line 502: the final save, the summary and
\* the exit code.
FinalSave ==
  /\ pc = "final"
  /\ \E io \in SaveChoices :
       /\ regFile' = SaveRegistry(regFile, processed, downloaded, io)
       /\ ioFails' = ioFails + Bit(io # "ok")
       /\ lastFlushed' = IF io = "ok"
                         THEN [ids |-> processed, urls |-> downloaded]
                         ELSE lastFlushed
       /\ outcome' = IF io = "ok" THEN "done" ELSE "done_unsaved"
  /\ saves' = saves + 1
  /\ pc' = "done"
  /\ exitCode' = ExitCode(stats)
  /\ lastDetail' = NoId
  /\ lastDl' = NoLastDl
  /\ justFlushed' = FALSE
  /\ lastFailed' = "none"
  /\ UNCHANGED <<envVars, files, processed, downloaded, max_pages, page,
                 consecutive_empty, competitions, stats, run, prevCompleted, netFails,
                 netFailedRun, xfers, xferOpsRun, existSkipped,
                 detailRun, justified, nonEmptyPages, emptyStreak, resume,
                 loadedIds, failedIds>>

\* What is left of a process that has stopped before run returned: the
\* position in the loop and the statistics are gone with it; processed and
\* downloaded keep what it had marked, for comparison with the registry
\* file.
Stopped ==
  /\ pc' = "exited"
  /\ max_pages' = NoPages
  /\ page' = 0
  /\ consecutive_empty' = 0
  /\ competitions' = <<>>
  /\ stats' = ZeroStats
  /\ netFailedRun' = FALSE
  /\ xferOpsRun' = 0
  /\ detailRun' = {}
  /\ lastDetail' = NoId
  /\ lastDl' = NoLastDl
  /\ saves' = 0
  /\ nonEmptyPages' = 0
  /\ emptyStreak' = 0
  /\ justFlushed' = FALSE
  /\ loadedIds' = {}
  /\ lastFailed' = "none"
  /\ UNCHANGED <<envVars, files, processed, downloaded, justified, run,
                 prevCompleted, netFails, ioFails, xfers, existSkipped,
                 lastFlushed, failedIds>>

\* main, lines 503-505: KeyboardInterrupt leaves run where it is; the
\* handler logs and returns 1.
Interrupt ==
  /\ pc \in Running
  /\ exitCode' = 1
  /\ outcome' = "interrupt"
  /\ Stopped
  /\ UNCHANGED <<regFile, resume>>

\* The process is killed between two steps.
Crash ==
  /\ pc \in Running
  /\ exitCode' = 137
  /\ outcome' = IF justFlushed THEN "crash_after_flush" ELSE "crash"
  /\ resume' = IF justFlushed
               THEN [active |-> TRUE, ids |-> processed,
                     urls |-> downloaded, n |-> stats.pages_scraped]
               ELSE resume
  /\ Stopped
  /\ UNCHANGED regFile

\* The process is killed inside _save_registry, lines 123-128: after the
\* file was truncated and before json.dump has written all of it, or after
\* the last byte was written.
CrashDuringSave ==
  /\ \/ pc = "final"
     \/ pc = "proc" /\ competitions = <<>>
  /\ regFile' \in {MalformedFile, OkFile(processed, downloaded)}
  /\ exitCode' = 137
  /\ outcome' = "crash_in_save"
  /\ Stopped
  /\ UNCHANGED resume

\* The program is started again on the same output directory: nothing of
\* the old process is left but the registry file and the archives.
Restart ==
  /\ pc \in {"done", "exited"}
  /\ run < MaxRuns
  /\ run' = run + 1
  /\ prevCompleted' = (outcome = "done")
  /\ resume' = IF outcome = "crash_after_flush" THEN resume ELSE NoResume
  /\ pc' = "new"
  /\ outcome' = "running"
  /\ processed' = {}
  /\ downloaded' = {}
  /\ justified' = {}
  /\ max_pages' = NoPages
  /\ page' = 0
  /\ consecutive_empty' = 0
  /\ competitions' = <<>>
  /\ stats' = ZeroStats
  /\ exitCode' = -1
  /\ netFailedRun' = FALSE
  /\ xferOpsRun' = 0
  /\ detailRun' = {}
  /\ lastDetail' = NoId
  /\ lastDl' = NoLastDl
  /\ saves' = 0
  /\ nonEmptyPages' = 0
  /\ emptyStreak' = 0
  /\ justFlushed' = FALSE
  /\ loadedIds' = {}
  /\ lastFailed' = "none"
  /\ UNCHANGED <<envVars, regFile, files, netFails, ioFails, xfers,
                 existSkipped, lastFlushed, failedIds>>

Next ==
  \/ Construct
  \/ RunStart
  \/ VisitPage
  \/ ProcessCompetition
  \/ SavePage
  \/ FinalSave
  \/ Interrupt
  \/ Crash
  \/ CrashDuringSave
  \/ Restart

Spec == Init /\ [][Next]_vars

\* One start of the program, from the constructor to the end of the
\* process.  A process that is not interrupted or killed takes its next
\* step: run is sequential code, and each of its steps stays enabled until
\* it is taken.
OneRunNext ==
  \/ Construct
  \/ RunStart
  \/ VisitPage
  \/ ProcessCompetition
  \/ SavePage
  \/ FinalSave
  \/ Interrupt
  \/ Crash
  \/ CrashDuringSave

OneRunFairSpec ==
  /\ Init
  /\ [][OneRunNext]_vars
  /\ WF_vars(Construct \/ RunStart \/ VisitPage \/ ProcessCompetition
                \/ SavePage \/ FinalSave)

\* ------------------------------------------- page extraction on its own
\* _get_competitions_from_page applied once to a page made of any anchors
\* of AnchorPool, at most MaxAnchors of them, with any registry over the
\* ids of the pool.
AnchorPool == {aMenu, aTrofeo, aImage1, aCopa, aViejo, aMaster}

AnchorSeqs == UNION {[1..n -> AnchorPool] : n \in 0..MaxAnchors}

ExtractInit ==
  /\ \E as \in AnchorSeqs : site = [pages |-> <<as>>, labels |-> {}]
  /\ cfgMaxPages = 1
  /\ regFile = MissingFile
  /\ files = {}
  /\ pc = "loop"
  /\ processed \in SUBSET {1, 6}
  /\ downloaded = {}
  /\ max_pages = 1
  /\ page = 1
  /\ consecutive_empty = 0
  /\ competitions = <<>>
  /\ stats = ZeroStats
  /\ exitCode = -1
  /\ run = 1
  /\ outcome = "running"
  /\ prevCompleted = FALSE
  /\ netFails = 0
  /\ netFailedRun = FALSE
  /\ ioFails = 0
  /\ xfers = [u \in Urls |-> 0]
  /\ xferOpsRun = 0
  /\ existSkipped = {}
  /\ lastDetail = NoId
  /\ detailRun = {}
  /\ justified = {}
  /\ lastDl = NoLastDl
  /\ saves = 0
  /\ nonEmptyPages = 0
  /\ emptyStreak = 0
  /\ lastFlushed = [ids |-> {}, urls |-> {}]
  /\ justFlushed = FALSE
  /\ resume = NoResume
  /\ loadedIds = processed
  /\ failedIds = {}
  /\ lastFailed = "none"

\* The call of line 431 with its effect on the statistics; what run does
\* with the list is left to Spec.
ExtractPage ==
  /\ pc = "loop"
  /\ LET got == GetCompetitionsFromPage(PageAnchors(site, page),
                                        processed, TRUE)
     IN  /\ competitions' = got.comps
         /\ processed' = got.processed
         /\ stats' = [stats EXCEPT
                        !.pages_scraped = @ + 1,
                        !.competitions_already_downloaded = @ + got.skipped]
  /\ pc' = "scanned"
  /\ UNCHANGED <<envVars, regFile, files, downloaded, max_pages,
                 page, consecutive_empty, exitCode, run, outcome,
                 prevCompleted, netFails, netFailedRun, ioFails, xfers,
                 xferOpsRun, existSkipped, lastDetail, detailRun, justified,
                 lastDl, saves, nonEmptyPages, emptyStreak, lastFlushed,
                 justFlushed, resume, loadedIds, failedIds, lastFailed>>

ExtractNext == ExtractPage

ExtractSpec == ExtractInit /\ [][ExtractNext]_vars

\* ------------------------------------------------------------- properties
Loaded == LoadRegistry(regFile)

\* The archive URLs on the detail pages of the competitions disposed of.
Qualifying == {Detail(i).zip : i \in processed} \ {NoUrl}

\* Two runs that both returned, the first on a new output directory, with
\* no network or storage failure in either.
TwoCleanRuns == run = 2 /\ pc = "done" /\ prevCompleted /\ Faults = 0

\* C1: after a first run that returned and flushed its registry, a second
\* run on the same site and output directory sends no archive request
\* (stated for behaviours without any network or storage failure).
C1_SecondRunNoTransfers ==
  (prevCompleted /\ Faults = 0) => xferOpsRun = 0

C3_NoRefetch ==
  [][lastDetail' # NoId => lastDetail' \notin processed]_vars

C3_Witness ==
  /\ run = 2
  /\ pc = "done"
  /\ stats.competitions_already_downloaded > 0
  /\ processed # {}

\* C4: once three consecutive pages have each yielded no competition and
\* no skipped entry, the loop has stopped: no further page is visited
\* (stated for behaviours without any network or storage failure).
C4_StopsAfterThreeEmpty ==
  (Faults = 0 /\ emptyStreak >= EmptyLimit) => pc \notin {"loop", "proc"}

\* C5: when the process has exited on an interrupt, every id and URL it
\* had marked is in the persisted registry.
C5_InterruptPersists ==
  (pc = "exited" /\ outcome = "interrupt") =>
    /\ processed \subseteq Loaded.ids
    /\ downloaded \subseteq Loaded.urls

\* C6, as claimed: the registry has been saved once for every page
\* visited, and once more when the run has returned.
C6_FlushAfterEveryPage ==
  /\ pc \in {"loop", "final"} => saves = stats.pages_scraped
  /\ pc = "done" => saves = stats.pages_scraped + 1

\* C6, amended: the registry has been saved once for every visited page
\* that yielded at least one new competition, after the last competition
\* of that page, and once more when the run has returned, also after an
\* early termination; a save that did not fail leaves the file equal to
\* the sets in memory.
C6_FlushAfterNonEmptyPage ==
  /\ pc \in {"loop", "final"} => saves = nonEmptyPages
  /\ pc = "proc" => saves + 1 = nonEmptyPages
  /\ pc = "done" => saves = nonEmptyPages + 1
  /\ (justFlushed \/ outcome = "done") =>
       regFile = OkFile(processed, downloaded)

C6_Witness ==
  /\ pc = "done"
  /\ outcome = "done"
  /\ consecutive_empty >= EmptyLimit
  /\ nonEmptyPages >= 1
  /\ stats.pages_scraped > nonEmptyPages

C8_CrashKeepsFlushed ==
  ioFails = 0 =>
    /\ lastFlushed.ids \subseteq Loaded.ids
    /\ lastFlushed.urls \subseteq Loaded.urls

\* C9: every URL in downloaded_files was loaded from the registry, or a
\* transfer of it succeeded, or its target file was found on disk.
C9_DownloadedJustified == downloaded \subseteq justified

C9_Witness ==
  /\ lastDl.url # NoUrl
  /\ ~lastDl.ok
  /\ lastDl.url \notin downloaded
  /\ downloaded # {}

\* C10: after a transfer whose response declares text/html no file is at
\* the destination path, the URL is not in downloaded_files and the call
\* has returned False.
C10_MarkupRejected ==
  (lastDl.responded /\ ContentType(lastDl.url) = "text/html") =>
    /\ lastDl.path \notin files
    /\ lastDl.url \notin downloaded
    /\ ~lastDl.ok

C10_Witness ==
  /\ lastDl.responded
  /\ ContentType(lastDl.url) = "text/html"
  /\ stats.files_downloaded = 1

C12_SkipPath ==
  (lastDl.url # NoUrl /\ (lastDl.known \/ lastDl.present))
    => /\ ~lastDl.requested
       /\ ~lastDl.ok
       /\ lastDl.url \in downloaded
       /\ lastDetail \in processed

\* An archive was skipped because its target file existed while its URL
\* was not yet recorded.
C12_Witness ==
  /\ lastDl.url # NoUrl
  /\ lastDl.present
  /\ ~lastDl.known
  /\ lastDl.url \in downloaded
  /\ stats.files_skipped > 0

\* C13: the constructor's load never raises, and a registry file that is
\* not well formed (missing, unreadable, not parseable, or parseable with
\* the wrong shape) leaves both sets empty.
C13_LoadFailsSoft ==
  /\ outcome # "raised"
  /\ (pc = "ready" /\ regFile.kind # "ok")
       => (processed = {} /\ downloaded = {})

\* C14: main returns 0 exactly when run returned and stats['errors'] is
\* zero; it returns 1 when run returned with an error recorded, when the
\* user interrupted the run, and the process ends with status 1 when an
\* exception was not handled.
C14_ExitCode ==
  /\ exitCode = 0 <=> (pc = "done" /\ stats.errors = 0)
  /\ (pc = "done" /\ stats.errors > 0) => exitCode = 1
  /\ outcome \in {"interrupt", "raised"} => exitCode = 1
  /\ pc \in Running \cup {"new"} => exitCode = -1

\* A run returned after a request of it had failed.
C14_Witness ==
  /\ pc = "done"
  /\ netFailedRun
  /\ stats.errors > 0
  /\ exitCode = 1

\* The competitions a successful request of page p would yield now.
NewOnPage(p) ==
  GetCompetitionsFromPage(PageAnchors(site, p), processed, TRUE).comps

\* C15 as stated: after a failed request of a calendar page the crawl goes
\* on with the next page; the failure never ends the loop (stated for
\* pages before the last one that hold a competition not yet processed).
C15_CrawlContinues ==
  (lastFailed = "page" /\ page < max_pages /\ NewOnPage(page) # <<>>)
    => pc = "loop"

\* C15 (amended): a failed request is counted once, its result is taken as
\* absent and no exception leaves run; the crawl goes on with the next
\* competition or page, except that a failed calendar page counts as a
\* page without new competitions and ends the loop when it is the third
\* such page in a row.  The first part tells what a step leaves behind
\* when a request of it failed; the second that a step of a running
\* process adds to stats['errors'] one for each request of it that failed
\* and one for a transfer that broke off.
C15_ErrorsAbsorbed ==
  /\ [](/\ lastFailed # "none"
             => (pc \in Running /\ outcome = "running" /\ stats.errors >= 1)
        /\ lastFailed = "pages"
             => (pc = "loop" /\ page = 1 /\ max_pages = FallbackPages)
        /\ lastFailed = "page"
             => /\ competitions = <<>>
                /\ \/ pc = "loop"
                   \/ pc = "final" /\ page > max_pages
                   \/ pc = "final" /\ consecutive_empty >= EmptyLimit
        /\ lastFailed \in {"detail", "zip"}
             => (pc = "proc" /\ lastDetail \in processed /\ ~lastDl.ok)
        /\ lastFailed = "detail" => lastDl = NoLastDl)
  /\ [][(pc \in Running /\ pc' \in Running)
          => stats'.errors = stats.errors + (netFails' - netFails)
                               + Bit(lastDl'.kind = "io_fail")]_vars

\* The request of a calendar page failed and the loop went on with the
\* page after it.
C15_Witness ==
  /\ lastFailed = "page"
  /\ pc = "loop"
  /\ page > 1
  /\ stats.errors = 1

\* C16: the year directory of the target path of an archive is the year of
\* the date extracted from the detail page whenever a date was extracted,
\* and the season year inferred from the title only when there was none.
C16_YearPrecedence ==
  lastDl.url # NoUrl
    => lastDl.path.dir = IF lastDl.date # NoDate THEN lastDl.date[1]
                         ELSE lastDl.season

\* An archive was filed under the year of its date although the title gave
\* another season year.
C16_Witness ==
  /\ lastDl.url # NoUrl
  /\ lastDl.date # NoDate
  /\ lastDl.season # lastDl.date[1]
  /\ lastDl.path.dir = lastDl.date[1]
  /\ lastDl.path \in files

\* The tests of _get_competitions_from_page, each as a filter of its own
\* over a sequence of anchors: lines 221-226, 230-233, 239-241, 250-251
\* and 254.
CompetitionLinks(as) == SelectSeq(as, LAMBDA a : a.id # NoId)

DropProcessed(as, proc) == SelectSeq(as, LAMBDA a : a.id \notin proc)

DropShortTitles(as) == SelectSeq(as, LAMBDA a : a.title.len >= MinTitleLen)

DropOutOfRange(as) ==
  SelectSeq(as, LAMBDA a : /\ StartYear <= ExtractYearFromText(a.title)
                           /\ ExtractYearFromText(a.title) <= EndYear)

RECURSIVE DedupFrom(_, _, _)
DedupFrom(as, i, acc) ==
  IF i > Len(as) THEN acc
  ELSE IF \E k \in 1..Len(acc) : acc[k].id = as[i].id
  THEN DedupFrom(as, i + 1, acc)
  ELSE DedupFrom(as, i + 1, Append(acc, as[i]))

DedupById(as) == DedupFrom(as, 1, <<>>)

\* Lines 255-260: the entry made of an anchor.
Entries(as) ==
  [k \in 1..Len(as) |->
     [id |-> as[k].id, title |-> as[k].title.name,
      season_year |-> ExtractYearFromText(as[k].title)]]

\* C17 as stated: the list page extraction returns is the one the filters
\* give in the order processed ids, short titles, duplicates within the
\* page, season year out of range; the processed entries are counted.
C17_StatedOrder ==
  pc = "scanned"
    => LET links == CompetitionLinks(PageAnchors(site, page))
           fresh == DropProcessed(links, processed)
       IN  /\ competitions =
                Entries(DropOutOfRange(DedupById(DropShortTitles(fresh))))
           /\ stats.competitions_already_downloaded
                = Len(links) - Len(fresh)

\* C17 (amended): the list page extraction returns is the one the filters
\* give in the order processed ids, short titles, season year out of
\* range, duplicates within the page; the processed entries are counted.
C17_CodeOrder ==
  pc = "scanned"
    => LET links == CompetitionLinks(PageAnchors(site, page))
           fresh == DropProcessed(links, processed)
       IN  /\ competitions =
                Entries(DedupById(DropOutOfRange(DropShortTitles(fresh))))
           /\ stats.competitions_already_downloaded
                = Len(links) - Len(fresh)

\* A page listed one id twice, first under a title of a season out of
\* range, and the second anchor was returned.
C17_Witness ==
  /\ pc = "scanned"
  /\ Len(PageAnchors(site, page)) >= 2
  /\ PageAnchors(site, page)[1] = aViejo
  /\ \E k \in 2..Len(PageAnchors(site, page)) :
       PageAnchors(site, page)[k] = aMaster
  /\ \E k \in 1..Len(competitions) : competitions[k].id = 6

\* C18: consecutive_empty never counts a page that yielded a competition
\* or on which a processed entry was skipped (it is never more than the
\* number of the latest pages in a row that had neither), and the loop
\* ends before the last page only after three pages in a row that had
\* neither.
C18_CountsOnlyBarePages ==
  /\ pc \in Running \cup {"done"} => consecutive_empty <= emptyStreak
  /\ (pc \in {"final", "done"} /\ page <= max_pages)
       => (consecutive_empty >= EmptyLimit /\ emptyStreak >= EmptyLimit)

\* The pages visited so far held nothing but processed entries and the
\* counter stands at zero.
C18_Witness ==
  /\ pc = "loop"
  /\ stats.pages_scraped >= 1
  /\ nonEmptyPages = 0
  /\ lastFailed = "none"
  /\ stats.competitions_already_downloaded > 0
  /\ emptyStreak = 0
  /\ consecutive_empty = 0

\* An anchor that passes the title and the year test of page extraction.
Listable(a) ==
  /\ a.id # NoId
  /\ a.title.len >= MinTitleLen
  /\ StartYear <= ExtractYearFromText(a.title)
  /\ ExtractYearFromText(a.title) <= EndYear

\* C19: in a run, processed_competitions holds the ids the registry gave
\* and the ids of the competitions whose disposition has run, and no
\* others: page extraction adds none, and an id that only anchors dropped
\* by the title or the year test carry is never marked.
C19_MarkedByDispositionOnly ==
  pc \in Running \cup {"done"}
    => /\ processed = loadedIds \cup detailRun
       /\ \A i \in processed \ loadedIds :
            \E p \in 1..Len(site.pages) :
              \E k \in 1..Len(site.pages[p]) :
                site.pages[p][k].id = i /\ Listable(site.pages[p][k])

\* A page held an anchor dropped by the year test next to a competition
\* that was disposed of; only the latter is marked.
C19_Witness ==
  /\ pc \in Running
  /\ site = SiteA
  /\ stats.pages_scraped = 2
  /\ competitions = <<>>
  /\ 3 \in processed
  /\ 6 \notin processed

\* C20: the pages are requested in the order 1, 2, 3, ... (the page about
\* to be requested is one more than the number requested so far), none
\* above max_pages; max_pages is the constructor's argument when one was
\* given, else the largest numeric pagination label of the first page and
\* at least 1, or 100 when that page could not be fetched; and a run that
\* has entered the loop comes to its end.
C20_LoopTerminates ==
  /\ [](/\ pc = "loop" => (page = stats.pages_scraped + 1
                             /\ page <= max_pages)
        /\ pc = "proc" => (page = stats.pages_scraped /\ page <= max_pages)
        /\ pc \in {"final", "done"}
             => /\ stats.pages_scraped <= max_pages
                /\ page \in {stats.pages_scraped, stats.pages_scraped + 1}
        /\ (pc \in {"loop", "proc", "final", "done"}
             /\ cfgMaxPages # NoPages) => max_pages = cfgMaxPages
        /\ (pc \in {"loop", "proc", "final", "done"}
             /\ cfgMaxPages = NoPages)
             => /\ max_pages \in {FallbackPages, SetMax(site.labels \cup {1})}
                /\ max_pages >= 1
                /\ max_pages = FallbackPages => stats.errors >= 1
        /\ lastFailed = "pages" => max_pages = FallbackPages)
  /\ [][pc = "loop" /\ pc' \in Running
          => stats'.pages_scraped = page /\ page' \in {page, page + 1}]_vars
  /\ (pc = "loop") ~> (pc \in {"done", "exited"})

\* A run whose page detection failed has gone through all 100 pages.
C20_Witness ==
  /\ pc = "done"
  /\ cfgMaxPages = NoPages
  /\ max_pages = FallbackPages
  /\ stats.pages_scraped = FallbackPages

\* C21: over any sequence of runs on one output directory and one
\* calendar, runs that were killed before they flushed the registry
\* included, no archive URL is transferred and stored more than once.
C21_AtMostOnceDownload ==
  \A u \in Urls : xfers[u] <= 1

====
